---------------------------- MODULE Spec2Model ----------------------------
(***************************************************************************)
(* A model of openhands/intent/watch.py: FileWatcher, the handler that     *)
(* turns raw filesystem notifications into FileEditObservation records.    *)
(*                                                                         *)
(* The raw-event handlers (on_created, on_modified, on_deleted, on_moved)  *)
(* run on the observer's delivery thread; every threading.Timer is its own *)
(* thread.  A Timer first waits for its interval, then checks that it was  *)
(* not cancelled, then calls its function: TimerExpire is the step that    *)
(* passes the cancellation check, after which cancel() no longer has an    *)
(* effect.                                                                 *)
(***************************************************************************)
EXTENDS Integers, Sequences, FiniteSets, TLC

(***************************************************************************)
(* Bounds of the model.                                                    *)
(***************************************************************************)
MaxTimers == 3      \* Timer threads alive at the same time
MaxEvents == 3      \* raw events of a scripted scenario
MaxLines == 3       \* lines of a content handed to the diff generator

(***************************************************************************)
(* Program constants, in units of 100 ms.                                  *)
(***************************************************************************)
debounce_delay == 1
rename_window == 1

(***************************************************************************)
(* Strings the code takes apart (paths, patterns) are sequences of         *)
(* one-character strings.                                                  *)
(***************************************************************************)
EndsWith(s, suf) ==
    /\ Len(s) >= Len(suf)
    /\ SubSeq(s, Len(s) - Len(suf) + 1, Len(s)) = suf

StartsWith(s, pre) ==
    /\ Len(s) >= Len(pre)
    /\ SubSeq(s, 1, Len(pre)) = pre

RECURSIVE Split(_, _)
\* str.split(sep): the parts of s between the separators.
Split(s, sep) ==
    IF \A i \in 1..Len(s) : s[i] # sep
    THEN <<s>>
    ELSE LET i == CHOOSE k \in 1..Len(s) :
                      s[k] = sep /\ \A m \in 1..(k - 1) : s[m] # sep
         IN  <<SubSeq(s, 1, i - 1)>> \o Split(SubSeq(s, i + 1, Len(s)), sep)

Last(s) == s[Len(s)]

\* os.path.basename of a relative path.
Basename(path) == Last(Split(path, "/"))

RECURSIVE FnMatch(_, _)
\* fnmatch of one path segment against a glob segment ("*" is the wildcard).
FnMatch(name, pat) ==
    IF pat = <<>> THEN name = <<>>
    ELSE IF Head(pat) = "*"
         THEN FnMatch(name, Tail(pat))
              \/ (name # <<>> /\ FnMatch(Tail(name), pat))
         ELSE name # <<>> /\ Head(name) = Head(pat)
              /\ FnMatch(Tail(name), Tail(pat))

\* pathlib.PurePath(rel).match(pattern) for a relative pattern: the
\* pattern's segments are matched against the path's last segments.
PathMatch(rel, pattern) ==
    LET ps == Split(rel, "/")
        qs == Split(pattern, "/")
    IN  /\ Len(qs) <= Len(ps)
        /\ \A i \in 1..Len(qs) :
              FnMatch(ps[Len(ps) - Len(qs) + i], qs[i])

\* PathSpec.match_file for the patterns of the watched directory's
\* .gitignore: a pattern "name/" matches everything below a directory of
\* that name, a pattern "name" matches a segment of that name anywhere.
GitignoreMatch(lines, file) ==
    LET ps == Split(file, "/")
    IN  \E l \in lines :
           IF Last(l) = "/"
           THEN \E i \in 1..(Len(ps) - 1) :
                   FnMatch(ps[i], SubSeq(l, 1, Len(l) - 1))
           ELSE \E i \in 1..Len(ps) : ps[i] # <<>> /\ FnMatch(ps[i], l)

(***************************************************************************)
(* IgnorePolicy, on a path relative to the watched directory.              *)
(***************************************************************************)
\* The neovim swap file or backup file test of every handler.
IsTransientPath(rel) ==
    \/ EndsWith(rel, <<".", "s", "w", "p">>)
    \/ EndsWith(rel, <<".", "s", "w", "o">>)
    \/ EndsWith(rel, <<"~">>)
    \/ StartsWith(Basename(rel), <<"4", "9", "1", "3">>)

\* The constructor's arguments: ignore_patterns and the .gitignore file.
ExtraIgnore == {<<"*", ".", "l", "o", "g">>}
GitignoreLines == {<<"o", "u", "t", "/">>}
\* The patterns argument: <<>> stands for None, <<S>> for the list S.
NoPatterns == <<>>
IncludeA == <<{<<"a", ".", "*">>}>>

\* self.ignore_patterns after the constructor.
ignore_patterns ==
    {<<".", "g", "i", "t">>, <<".", "g", "i", "t", "/", "*">>} \cup ExtraIgnore

_should_ignore(rel) ==
    LET path_parts == Split(rel, "/")
    IN  \/ \E i \in 1..Len(path_parts) : path_parts[i] = <<".", "g", "i", "t">>
        \/ \E pattern \in ignore_patterns : PathMatch(rel, pattern)
        \/ GitignoreMatch(GitignoreLines, rel)

_should_watch(pats, rel) ==
    IF pats = NoPatterns THEN TRUE
    ELSE \E pattern \in pats[1] : PathMatch(rel, pattern)

(***************************************************************************)
(* The watched tree: the paths raw events can name, relative to the        *)
(* watched directory.  The filters are functions of the path and of the    *)
(* configuration alone, so their values on the tree are tabulated.         *)
(***************************************************************************)
Paths == {"a", "b", "g", "s", "l", "o"}

RelPath(p) ==
    CASE p = "a" -> <<"a", ".", "t", "x", "t">>
      [] p = "b" -> <<"b", ".", "t", "x", "t">>
      [] p = "g" -> <<".", "g", "i", "t", "/", "a", ".", "t", "x", "t">>
      [] p = "s" -> <<"a", ".", "t", "x", "t", "~">>
      [] p = "l" -> <<"a", ".", "l", "o", "g">>
      [] p = "o" -> <<"o", "u", "t", "/", "a", ".", "t", "x", "t">>

TransientPaths == {p \in Paths : IsTransientPath(RelPath(p))}
IgnoredPaths == {p \in Paths : _should_ignore(RelPath(p))}
WatchedPaths ==
    [pats \in {NoPatterns, IncludeA} |->
        {p \in Paths : _should_watch(pats, RelPath(p))}]

(***************************************************************************)
(* File contents are the lines str.splitlines(keepends=True) yields; two   *)
(* contents are equal as strings exactly when their lines are.             *)
(***************************************************************************)
Empty == <<>>
Contents == {Empty, <<"x\n">>, <<"y\n">>}
\* What open(path).read() can do: return a text, or raise IOError or
\* UnicodeDecodeError (no such file, no permission, not text).
ReadFail == <<"<IOError>">>
ReadResults == Contents \cup {ReadFail}

VARIABLES
    patterns,          \* self.patterns
    use_debouncing,    \* self.use_debouncing
    observer,          \* the Observer thread: "new", "running", "stopped"
    file_contents,     \* self.file_contents: path -> content
    pending_changes,   \* self.pending_changes
    debounce_timers,   \* self.debounce_timers: path -> Timer
    recent_deletes,    \* self.recent_deletes, in dict order: (path, content, age)
    timers,            \* the Timer threads alive: id -> thread state
    emitted,           \* event_stream.add_event calls of the last step
    disk,              \* the files whose content is known: path -> read result
    ever_read,         \* paths a text read has succeeded for (history)
    delivered,         \* raw events delivered so far (history)
    script,            \* the scenario that drives the raw events (history)
    obs,               \* every add_event call of a scripted run (history)
    diff,              \* a call of _generate_diff: its arguments and result
    pc,                \* where the delivery thread is inside a handler
    failed             \* the statements that have raised KeyError

vars == <<patterns, use_debouncing, observer, file_contents,
          pending_changes, debounce_timers, recent_deletes, timers,
          emitted, disk, ever_read, delivered, script, obs, diff, pc, failed>>

config == <<patterns, use_debouncing>>

tables == <<file_contents, pending_changes, debounce_timers, recent_deletes>>

IsTransient(p) == p \in TransientPaths

\* self._should_ignore(path) or not self._should_watch(path)
Filtered(p) == p \in IgnoredPaths \/ p \notin WatchedPaths[patterns]

\* What a read of p returns in a step: the content the file has by then if
\* that is known, and anything if the file is one other processes write.
ReadOf(p) == IF p \in DOMAIN disk' THEN {disk'[p]} ELSE ReadResults

\* _read_file_content: the text, or '' when the read raises.
_read_file_content(r) == IF r = ReadFail THEN Empty ELSE r

\* An empty dict.
EmptyMap == [q \in {} |-> Empty]

\* dict.get(path, '')
Get(d, p) == IF p \in DOMAIN d THEN d[p] ELSE Empty

\* dict.pop(path, None) and d[path] = v
Drop(d, p) == [q \in DOMAIN d \ {p} |-> d[q]]
Put(d, p, v) == [q \in DOMAIN d \cup {p} |-> IF q = p THEN v ELSE d[q]]

(***************************************************************************)
(* DiffGenerator: difflib.unified_diff(old_lines, new_lines, n=0,          *)
(* lineterm='') with the two header lines and the @@ lines removed.        *)
(***************************************************************************)
\* SequenceMatcher.find_longest_match: the longest block a[i..i+k-1] =
\* b[j..j+k-1]; of the longest ones the one that starts earliest in a, and
\* of those the one that starts earliest in b.  k = 0 when no line is shared.
MatchAt(a, b, i, j, k) ==
    /\ i + k - 1 <= Len(a)
    /\ j + k - 1 <= Len(b)
    /\ \A d \in 0..(k - 1) : a[i + d] = b[j + d]

\* A matcher that finds no common block.
find_no_match(a, b) == <<1, 1, 0>>

find_longest_match(a, b) ==
    LET Size(k) == \E i \in 1..Len(a), j \in 1..Len(b) : MatchAt(a, b, i, j, k)
        Sizes == {k \in 1..Len(a) : Size(k)}
    IN  IF Sizes = {} THEN <<1, 1, 0>>
        ELSE LET k == CHOOSE m \in Sizes : \A n \in Sizes : n <= m
                 i == CHOOSE x \in 1..Len(a) :
                         /\ \E j \in 1..Len(b) : MatchAt(a, b, x, j, k)
                         /\ \A y \in 1..(x - 1) :
                               ~\E j \in 1..Len(b) : MatchAt(a, b, y, j, k)
                 j == CHOOSE x \in 1..Len(b) :
                         /\ MatchAt(a, b, i, x, k)
                         /\ \A y \in 1..(x - 1) : ~MatchAt(a, b, i, y, k)
             IN  <<i, j, k>>

RECURSIVE DiffOps(_, _)
\* The '-' and '+' lines of the opcodes between the matching blocks
\* (get_matching_blocks recurses left and right of the longest match), in
\* order, each as <<marker, line>>; with n=0 no ' ' line is left.
DiffOps(a, b) ==
    LET m == find_longest_match(a, b)
    IN  IF m[3] = 0
        THEN [i \in 1..Len(a) |-> <<"-", a[i]>>] \o [i \in 1..Len(b) |-> <<"+", b[i]>>]
        ELSE DiffOps(SubSeq(a, 1, m[1] - 1), SubSeq(b, 1, m[2] - 1))
             \o DiffOps(SubSeq(a, m[1] + m[3], Len(a)),
                        SubSeq(b, m[2] + m[3], Len(b)))

RECURSIVE Join(_)
\* ''.join(diff_lines) once the two header lines and the @@ lines are gone
\* (a '-' or '+' line never starts with '@@'): lineterm is '', so a line
\* ends where the content's line ends.
Join(ops) ==
    IF ops = <<>> THEN "" ELSE Head(ops)[1] \o Head(ops)[2] \o Join(Tail(ops))

_generate_diff(old_content, new_content) == Join(DiffOps(old_content, new_content))

(***************************************************************************)
(* The tables.  recent_deletes is a dict, scanned in insertion order: a    *)
(* sequence of entries with distinct paths.  The timestamp of an entry is  *)
(* kept as its age, which Tick advances and which stops counting once it   *)
(* is beyond the rename window.                                            *)
(***************************************************************************)
RecentPaths == {recent_deletes[i].path : i \in 1..Len(recent_deletes)}

RecentIndex(p) == CHOOSE i \in 1..Len(recent_deletes) : recent_deletes[i].path = p

RemoveAt(s, i) == SubSeq(s, 1, i - 1) \o SubSeq(s, i + 1, Len(s))

\* recent_deletes[path] = (content, time.time()): a key the dict holds keeps
\* its place, a new key goes last.
RecentStore(p, c) ==
    LET e == [path |-> p, content |-> c, age |-> 0]
    IN  IF p \in RecentPaths
        THEN [recent_deletes EXCEPT ![RecentIndex(p)] = e]
        ELSE Append(recent_deletes, e)

\* FileEditObservation(path, prev_exist, old_content, new_content, content)
Observation(p, prev, old, new) ==
    [path |-> p, prev_exist |-> prev, old_content |-> old,
     new_content |-> new, content |-> _generate_diff(old, new)]

\* event_stream.add_event for each observation of es, in order.
Emit(es) ==
    /\ emitted' = es
    /\ obs' = IF script.name = "free" THEN obs ELSE obs \o es

\* A successful read of p, or a failed one.
NoteRead(p, r) ==
    ever_read' = IF r = ReadFail THEN ever_read ELSE ever_read \cup {p}

(***************************************************************************)
(* Timer threads.  timers holds the threads that have been started and     *)
(* have neither finished nor been cancelled; a thread is "waiting" for its *)
(* interval (rem is what is left of it) or has "fired".                    *)
(***************************************************************************)
TimerIds == 1..MaxTimers

\* Timer.cancel(): stops a timer that is still waiting, and does nothing to
\* one that has fired or finished.
Cancel(ts, id) ==
    IF id \in DOMAIN ts /\ ts[id].st = "waiting"
    THEN [i \in DOMAIN ts \ {id} |-> ts[i]]
    ELSE ts

\* Timer(interval, function, args).start()
StartTimer(ts, id, kind, p, old, interval) ==
    [i \in DOMAIN ts \cup {id} |->
        IF i = id
        THEN [kind |-> kind, path |-> p, old_content |-> old,
              st |-> "waiting", rem |-> interval]
        ELSE ts[i]]

\* The names a new Timer object can take: those no live thread and no entry
\* of debounce_timers other than p's has.
FreeIds(ts, p) ==
    TimerIds \ (DOMAIN ts
                \cup {debounce_timers[q] : q \in DOMAIN debounce_timers \ {p}})

NewId(ts, p) == CHOOSE i \in FreeIds(ts, p) : \A j \in FreeIds(ts, p) : i <= j

\* The timers after the one debounce_timers holds for p, if any, is cancelled.
CancelOf(p) ==
    IF p \in DOMAIN debounce_timers
    THEN Cancel(timers, debounce_timers[p])
    ELSE timers

\* The part of on_deleted and on_moved that cancels a pending change.
CancelPending(p) ==
    /\ timers' = CancelOf(p)
    /\ IF p \in DOMAIN debounce_timers
       THEN /\ debounce_timers' = Drop(debounce_timers, p)
            /\ pending_changes' = pending_changes \ {p}
       ELSE UNCHANGED <<debounce_timers, pending_changes>>

_schedule_debounced_change(p) ==
    /\ FreeIds(CancelOf(p), p) # {}
    /\ timers' = StartTimer(CancelOf(p), NewId(CancelOf(p), p), "debounce", p,
                            Empty, debounce_delay)
    /\ debounce_timers' = Put(debounce_timers, p, NewId(CancelOf(p), p))
    /\ pending_changes' = pending_changes \cup {p}

(***************************************************************************)
(* The constructor: _initialize_file_contents caches every file of the     *)
(* tree that passes the filters and can be read as text.  The tree at      *)
(* construction time is arbitrary, so the cache is any map from such paths *)
(* to contents.  use_debouncing is True after __init__; a test clears it   *)
(* before start().                                                         *)
(***************************************************************************)
\* Every file of the tree holds this text when the watcher is constructed.
InitContents == {<<"x\n">>}

_initialize_file_contents(texts) ==
    /\ \E S \in SUBSET (WatchedPaths[patterns] \ IgnoredPaths) :
          file_contents \in [S -> texts]
    /\ ever_read = DOMAIN file_contents

\* No call of _generate_diff is being looked at.
NoDiff == [done |-> FALSE]

\* The delivery thread is between two events.
Idle == [at |-> "idle"]

Constructed(texts) ==
    /\ patterns \in {NoPatterns, IncludeA}
    /\ use_debouncing \in BOOLEAN
    /\ observer = "new"
    /\ _initialize_file_contents(texts)
    /\ pending_changes = {}
    /\ debounce_timers = EmptyMap
    /\ recent_deletes = <<>>
    /\ timers = EmptyMap
    /\ emitted = <<>>
    /\ delivered = 0
    /\ obs = <<>>
    /\ diff = NoDiff
    /\ pc = Idle
    /\ failed = {}

start ==
    /\ observer = "new"
    /\ observer' = "running"
    /\ Emit(<<>>)
    /\ UNCHANGED <<config, tables, timers, ever_read>>

\* stop(): cancel every timer of debounce_timers, then stop and join the
\* observer thread.
stop ==
    /\ observer = "running"
    /\ observer' = "stopped"
    /\ timers' = [i \in {j \in DOMAIN timers :
                           ~(/\ timers[j].st = "waiting"
                             /\ \E p \in DOMAIN debounce_timers :
                                   debounce_timers[p] = j)}
                   |-> timers[i]]
    /\ Emit(<<>>)
    /\ UNCHANGED <<config, tables, ever_read>>

\* A handler that returns before it touches anything.
Discard ==
    /\ Emit(<<>>)
    /\ UNCHANGED <<tables, timers, ever_read>>

\* A commit that leaves out the comparison of the old and the new content.
CommitAlways(p, r) ==
    /\ NoteRead(p, r)
    /\ file_contents' = Put(file_contents, p, _read_file_content(r))
    /\ Emit(<<Observation(p, TRUE, Get(file_contents, p), _read_file_content(r))>>)

\* The commit of on_modified (immediate mode) and of
\* _handle_debounced_change: emit only if the content changed.
Commit(p, r) ==
    LET old_content == Get(file_contents, p)
        new_content == _read_file_content(r)
    IN  /\ NoteRead(p, r)
        /\ IF old_content # new_content
           THEN /\ file_contents' = Put(file_contents, p, new_content)
                /\ Emit(<<Observation(p, TRUE, old_content, new_content)>>)
           ELSE /\ UNCHANGED file_contents
                /\ Emit(<<>>)

\* A rename check with the window test the wrong way round.
RenameMatchStale(new_content) ==
    LET hits == {i \in 1..Len(recent_deletes) :
                    /\ recent_deletes[i].age > rename_window
                    /\ recent_deletes[i].content = new_content}
    IN  IF hits = {} THEN 0
        ELSE CHOOSE i \in hits : \A j \in hits : i <= j

\* The rename check of on_created: the first entry of recent_deletes, in
\* dict order, that is inside the rename window and holds the content of
\* the created file; 0 if there is none.
RenameMatch(new_content) ==
    LET hits == {i \in 1..Len(recent_deletes) :
                    /\ recent_deletes[i].age <= rename_window
                    /\ recent_deletes[i].content = new_content}
    IN  IF hits = {} THEN 0
        ELSE CHOOSE i \in hits : \A j \in hits : i <= j

\* The file is read in the rename check only if an entry is inside the window.
RenameReads ==
    \E i \in 1..Len(recent_deletes) : recent_deletes[i].age <= rename_window

\* on_created once the rename check has found nothing.
NewFile(p) ==
    IF use_debouncing
    THEN /\ _schedule_debounced_change(p)
         /\ Emit(<<>>)
         /\ UNCHANGED <<file_contents, recent_deletes>>
    ELSE /\ \E r \in ReadOf(p) :
              /\ file_contents' = Put(file_contents, p, _read_file_content(r))
              /\ NoteRead(p, r)
              /\ Emit(<<Observation(p, FALSE, Empty, _read_file_content(r))>>)
         /\ UNCHANGED <<pending_changes, debounce_timers, recent_deletes, timers>>

on_created(p, is_directory) ==
    /\ observer = "running"
    /\ UNCHANGED <<config, observer>>
    /\ IF is_directory \/ IsTransient(p) \/ Filtered(p)
       THEN Discard
       ELSE IF RenameReads
       THEN \E r \in ReadOf(p) :
               IF RenameMatch(_read_file_content(r)) # 0
               THEN /\ file_contents' =
                           Put(file_contents, p, _read_file_content(r))
                    /\ recent_deletes' =
                           RemoveAt(recent_deletes,
                                    RenameMatch(_read_file_content(r)))
                    /\ NoteRead(p, r)
                    /\ Emit(<<>>)
                    /\ UNCHANGED <<pending_changes, debounce_timers, timers>>
               ELSE IF use_debouncing
               THEN /\ NewFile(p)
                    /\ NoteRead(p, r)
               ELSE NewFile(p)
       ELSE /\ NewFile(p)
            /\ IF use_debouncing THEN UNCHANGED ever_read ELSE TRUE

on_modified(p, is_directory) ==
    /\ observer = "running"
    /\ UNCHANGED <<config, observer>>
    /\ IF is_directory \/ IsTransient(p) \/ Filtered(p)
       THEN Discard
       ELSE IF use_debouncing
       THEN /\ _schedule_debounced_change(p)
            /\ Emit(<<>>)
            /\ UNCHANGED <<file_contents, recent_deletes, ever_read>>
       ELSE /\ \E r \in ReadOf(p) : Commit(p, r)
            /\ UNCHANGED <<pending_changes, debounce_timers, recent_deletes,
                           timers>>

\* An on_deleted that stores the deleted path before it looks at the filters.
on_deleted_Unfiltered(p, is_directory) ==
    /\ observer = "running"
    /\ UNCHANGED <<config, observer, ever_read>>
    /\ IF is_directory \/ IsTransient(p)
       THEN Discard
       ELSE LET old_content == Get(file_contents, p)
            IN  /\ file_contents' = Drop(file_contents, p)
                /\ debounce_timers' = Drop(debounce_timers, p)
                /\ pending_changes' = IF p \in DOMAIN debounce_timers
                                      THEN pending_changes \ {p}
                                      ELSE pending_changes
                /\ IF use_debouncing
                   THEN /\ FreeIds(CancelOf(p), p) # {}
                        /\ recent_deletes' = RecentStore(p, old_content)
                        /\ timers' = StartTimer(CancelOf(p), NewId(CancelOf(p), p),
                                                "delete", p, old_content,
                                                rename_window)
                        /\ Emit(<<>>)
                   ELSE /\ timers' = CancelOf(p)
                        /\ UNCHANGED recent_deletes
                        /\ Emit(<<Observation(p, TRUE, old_content, Empty)>>)

on_deleted(p, is_directory) ==
    /\ observer = "running"
    /\ UNCHANGED <<config, observer, ever_read>>
    /\ IF is_directory \/ IsTransient(p)
       THEN Discard
       ELSE IF Filtered(p)
       THEN /\ CancelPending(p)
            /\ Emit(<<>>)
            /\ UNCHANGED <<file_contents, recent_deletes>>
       ELSE LET old_content == Get(file_contents, p)
            IN  /\ file_contents' = Drop(file_contents, p)
                /\ debounce_timers' = Drop(debounce_timers, p)
                /\ pending_changes' = IF p \in DOMAIN debounce_timers
                                      THEN pending_changes \ {p}
                                      ELSE pending_changes
                /\ IF use_debouncing
                   THEN /\ FreeIds(CancelOf(p), p) # {}
                        /\ recent_deletes' = RecentStore(p, old_content)
                        /\ timers' = StartTimer(CancelOf(p), NewId(CancelOf(p), p),
                                                "delete", p, old_content,
                                                rename_window)
                        /\ Emit(<<>>)
                   ELSE /\ timers' = CancelOf(p)
                        /\ UNCHANGED recent_deletes
                        /\ Emit(<<Observation(p, TRUE, old_content, Empty)>>)

\* An on_moved that emits the creation before the deletion and leaves the
\* source in the cache.
on_moved_KeepSource(src, dest, is_directory) ==
    /\ observer = "running"
    /\ UNCHANGED <<config, observer, ever_read, recent_deletes>>
    /\ IF is_directory
       THEN Discard
       ELSE /\ CancelPending(src)
            /\ IF IsTransient(src) \/ IsTransient(dest) \/ Filtered(src)
               THEN /\ Emit(<<>>)
                    /\ UNCHANGED file_contents
               ELSE LET old_content == Get(file_contents, src)
                        deletion == Observation(src, TRUE, old_content, Empty)
                        creation == Observation(dest, FALSE, Empty, old_content)
                    IN  IF ~Filtered(dest)
                        THEN /\ file_contents' = Put(file_contents, dest, old_content)
                             /\ Emit(<<creation, deletion>>)
                        ELSE /\ UNCHANGED file_contents
                             /\ Emit(<<deletion>>)

on_moved(src, dest, is_directory) ==
    /\ observer = "running"
    /\ UNCHANGED <<config, observer, ever_read, recent_deletes>>
    /\ IF is_directory
       THEN Discard
       ELSE /\ CancelPending(src)
            /\ IF IsTransient(src) \/ IsTransient(dest) \/ Filtered(src)
               THEN /\ Emit(<<>>)
                    /\ UNCHANGED file_contents
               ELSE LET old_content == Get(file_contents, src)
                        deletion == Observation(src, TRUE, old_content, Empty)
                        creation == Observation(dest, FALSE, Empty, old_content)
                    IN  IF ~Filtered(dest)
                        THEN /\ file_contents' =
                                    Put(Drop(file_contents, src), dest, old_content)
                             /\ Emit(<<deletion, creation>>)
                        ELSE /\ file_contents' = Drop(file_contents, src)
                             /\ Emit(<<deletion>>)

(***************************************************************************)
(* The timer threads.                                                      *)
(***************************************************************************)
Finish(id) == [i \in DOMAIN timers \ {id} |-> timers[i]]

\* Timer.run: the interval is over and the timer was not cancelled; from
\* here on the function is called whatever cancel() does.
TimerExpire(id) ==
    /\ id \in DOMAIN timers
    /\ timers[id].st = "waiting"
    /\ timers[id].rem = 0
    /\ timers' = [timers EXCEPT ![id].st = "fired"]
    /\ Emit(<<>>)
    /\ UNCHANGED <<config, observer, tables, ever_read>>

\* The callback from its first statement ("fired"); where the threads are
\* followed statement by statement it is also the callback from the point
\* after its first test ("checked").
_handle_debounced_change(id) ==
    /\ id \in DOMAIN timers
    /\ timers[id].kind = "debounce"
    /\ timers[id].st \in {"fired", "checked"}
    /\ timers' = Finish(id)
    /\ UNCHANGED <<config, observer, recent_deletes>>
    /\ LET p == timers[id].path
       IN  IF p \notin pending_changes
           THEN /\ Emit(<<>>)
                /\ UNCHANGED <<file_contents, pending_changes, debounce_timers,
                               ever_read>>
           ELSE /\ pending_changes' = pending_changes \ {p}
                /\ debounce_timers' = Drop(debounce_timers, p)
                /\ IF Filtered(p) \/ IsTransient(p)
                   THEN /\ Emit(<<>>)
                        /\ UNCHANGED <<file_contents, ever_read>>
                   ELSE \E r \in ReadOf(p) : Commit(p, r)

\* A delayed delete that drops the entry without an observation.
_handle_delayed_delete_Silent(id) ==
    /\ id \in DOMAIN timers
    /\ timers[id].kind = "delete"
    /\ timers[id].st = "fired"
    /\ timers' = Finish(id)
    /\ UNCHANGED <<config, observer, file_contents, pending_changes,
                   debounce_timers, ever_read>>
    /\ Emit(<<>>)
    /\ recent_deletes' =
           IF timers[id].path \in RecentPaths
           THEN RemoveAt(recent_deletes, RecentIndex(timers[id].path))
           ELSE recent_deletes

_handle_delayed_delete(id) ==
    /\ id \in DOMAIN timers
    /\ timers[id].kind = "delete"
    /\ timers[id].st = "fired"
    /\ timers' = Finish(id)
    /\ UNCHANGED <<config, observer, file_contents, pending_changes,
                   debounce_timers, ever_read>>
    /\ LET p == timers[id].path
       IN  IF p \in RecentPaths
           THEN /\ Emit(<<Observation(p, TRUE, timers[id].old_content, Empty)>>)
                /\ recent_deletes' = RemoveAt(recent_deletes, RecentIndex(p))
           ELSE /\ Emit(<<>>)
                /\ UNCHANGED recent_deletes

\* 100 ms pass: every waiting timer is that much closer to its deadline and
\* every recent_deletes entry that much older.
Tick ==
    /\ \/ \E i \in DOMAIN timers : timers[i].rem > 0
       \/ \E i \in 1..Len(recent_deletes) : recent_deletes[i].age <= rename_window
    /\ timers' = [i \in DOMAIN timers |->
                    [timers[i] EXCEPT !.rem = IF @ > 0 THEN @ - 1 ELSE 0]]
    /\ recent_deletes' = [i \in 1..Len(recent_deletes) |->
                            [recent_deletes[i] EXCEPT
                                !.age = IF @ <= rename_window THEN @ + 1 ELSE @]]
    /\ Emit(<<>>)
    /\ UNCHANGED <<config, observer, file_contents, pending_changes,
                   debounce_timers, ever_read>>

(***************************************************************************)
(* The watcher under any raw events, on a tree any process writes to.      *)
(* Steps of the delivery thread and of the timer threads interleave.       *)
(***************************************************************************)
Init ==
    /\ Constructed(InitContents)
    /\ disk = EmptyMap
    /\ script = [name |-> "free"]

\* The observer thread delivers one more raw event.
Deliver ==
    /\ delivered < MaxEvents
    /\ delivered' = delivered + 1
    /\ UNCHANGED <<disk, script, diff, pc, failed>>

Background == UNCHANGED <<disk, delivered, script, diff, pc, failed>>

Start == start /\ Background
Stop == stop /\ Background
Created == Deliver /\ \E p \in Paths, d \in BOOLEAN : on_created(p, d)
Modified == Deliver /\ \E p \in Paths, d \in BOOLEAN : on_modified(p, d)
Deleted == Deliver /\ \E p \in Paths, d \in BOOLEAN : on_deleted(p, d)
Moved ==
    Deliver /\ \E p \in Paths : \E q \in Paths \ {p}, d \in BOOLEAN : on_moved(p, q, d)
Expire == Background /\ \E id \in TimerIds : TimerExpire(id)
DebouncedChange == Background /\ \E id \in TimerIds : _handle_debounced_change(id)
DelayedDelete == Background /\ \E id \in TimerIds : _handle_delayed_delete(id)
Elapse == Background /\ Tick

TimerStep == Expire \/ DebouncedChange \/ DelayedDelete \/ Elapse

Next ==
    \/ Start
    \/ Stop
    \/ Created
    \/ Modified
    \/ Deleted
    \/ Moved
    \/ Expire
    \/ DebouncedChange
    \/ DelayedDelete
    \/ Elapse

Spec == Init /\ [][Next]_vars

(***************************************************************************)
(* Scripted runs: the raw events of one scenario and nothing else, on      *)
(* files nothing else writes to, with the timer threads running freely.    *)
(* Every observation of a scripted run is kept in obs.                     *)
(***************************************************************************)
\* No Timer thread is left: every change is committed or dropped.
Quiet == DOMAIN timers = {}

\* A file operation of the scenario on p: afterwards a read of p gives r.
Write(p, r) == disk' = Put(disk, p, r)

\* The paths the handlers do not discard events for.
Handled == (WatchedPaths[patterns] \ IgnoredPaths) \ TransientPaths

(***************************************************************************)
(* A burst: the file of a tracked path is written and a Created or         *)
(* Modified event delivered, again and again while the debounce task of    *)
(* the previous event is still waiting; then silence.                      *)
(***************************************************************************)
InitBurst ==
    /\ Constructed(Contents)
    /\ use_debouncing
    /\ \E p \in DOMAIN file_contents \cap Handled :
          /\ script = [name |-> "burst", path |-> p, old |-> file_contents[p],
                       clean |-> TRUE]
          /\ disk = Put(EmptyMap, p, file_contents[p])

\* The debounce task of the previous event of the burst has not fired.
BurstOpen ==
    \/ delivered = 0
    \/ /\ script.path \in DOMAIN debounce_timers
       /\ debounce_timers[script.path] \in DOMAIN timers
       /\ timers[debounce_timers[script.path]].st = "waiting"

BurstEvent ==
    /\ script.name = "burst"
    /\ BurstOpen
    /\ delivered < MaxEvents
    /\ delivered' = delivered + 1
    /\ UNCHANGED <<diff, pc, failed>>
    /\ \E r \in ReadResults :
          /\ Write(script.path, r)
          \* clean: so far every write left a text other than the one before
          /\ script' = [script EXCEPT
                            !.clean = @ /\ r # ReadFail /\ r # disk[script.path]]
    /\ \/ on_created(script.path, FALSE)
       \/ on_modified(script.path, FALSE)

NextBurst ==
    \/ Start
    \/ BurstEvent
    \/ Expire
    \/ DebouncedChange
    \/ Elapse

SpecBurst == InitBurst /\ [][NextBurst]_vars

(***************************************************************************)
(* A replacement: the file of tracked path a is removed (Deleted), a file  *)
(* b is created with content x (Created), then written again (Modified).   *)
(***************************************************************************)
InitReplace ==
    /\ Constructed(Contents)
    /\ \E a \in DOMAIN file_contents \cap Handled, b \in Handled :
          /\ script = [name |-> "replace", phase |-> 0, a |-> a, b |-> b,
                       c |-> file_contents[a],
                       tracked |-> b \in DOMAIN file_contents,
                       x |-> Empty, inwindow |-> FALSE, d |-> Empty]
          /\ disk = [p \in {a, b} |-> IF p \in DOMAIN file_contents
                                       THEN file_contents[p] ELSE ReadFail]

\* The Deleted event finds in the cache what the file held.
ReplaceDelete ==
    /\ script.name = "replace"
    /\ script.phase = 0
    /\ delivered' = delivered + 1
    /\ UNCHANGED <<diff, pc, failed>>
    /\ script' = [script EXCEPT !.phase = 1]
    /\ Write(script.a, ReadFail)
    /\ on_deleted(script.a, FALSE)

\* The entry of the deleted path is in recent_deletes, inside the window.
InWindow(p) ==
    /\ p \in RecentPaths
    /\ recent_deletes[RecentIndex(p)].age <= rename_window

ReplaceCreate ==
    /\ script.name = "replace"
    /\ script.phase = 1
    /\ delivered' = delivered + 1
    /\ UNCHANGED <<diff, pc, failed>>
    /\ \E x \in Contents :
          /\ script' = [script EXCEPT !.phase = 2, !.x = x,
                                      !.inwindow = InWindow(script.a)]
          /\ Write(script.b, x)
    /\ on_created(script.b, FALSE)

ReplaceModify ==
    /\ script.name = "replace"
    /\ script.phase = 2
    /\ delivered' = delivered + 1
    /\ UNCHANGED <<diff, pc, failed>>
    /\ \E d \in Contents :
          /\ script' = [script EXCEPT !.phase = 3, !.d = d]
          /\ Write(script.b, d)
    /\ on_modified(script.b, FALSE)

NextReplace ==
    \/ Start
    \/ ReplaceDelete
    \/ ReplaceCreate
    \/ ReplaceModify
    \/ Expire
    \/ DebouncedChange
    \/ DelayedDelete
    \/ Elapse

SpecReplace == InitReplace /\ [][NextReplace]_vars

(***************************************************************************)
(* One call of _generate_diff, and a second one with the same old content: *)
(* the arguments are any contents of at most MaxLines lines.               *)
(***************************************************************************)
Lines == {"a\n", "b\n"}

\* What splitlines(keepends=True) can yield: only the last line can lack
\* its line end.
Texts ==
    UNION {[1..n -> Lines] : n \in 0..MaxLines}
    \cup UNION {{Append(t, "a") : t \in [1..n -> Lines]} : n \in 0..(MaxLines - 1)}

InitDiff ==
    /\ patterns = NoPatterns
    /\ use_debouncing = TRUE
    /\ observer = "new"
    /\ file_contents = EmptyMap
    /\ ever_read = {}
    /\ pending_changes = {}
    /\ debounce_timers = EmptyMap
    /\ recent_deletes = <<>>
    /\ timers = EmptyMap
    /\ emitted = <<>>
    /\ delivered = 0
    /\ obs = <<>>
    /\ disk = EmptyMap
    /\ script = [name |-> "diff"]
    /\ pc = Idle
    /\ failed = {}
    /\ \E old \in Texts, new \in Texts, other \in Texts :
          diff = [done |-> FALSE, old |-> old, new |-> new, other |-> other,
                  ops |-> <<>>, body |-> "", other_body |-> ""]

GenerateDiff ==
    /\ script.name = "diff"
    /\ ~diff.done
    /\ diff' = [diff EXCEPT !.done = TRUE,
                            !.ops = DiffOps(diff.old, diff.new),
                            !.body = _generate_diff(diff.old, diff.new),
                            !.other_body = _generate_diff(diff.old, diff.other)]
    /\ UNCHANGED <<patterns, use_debouncing, observer, file_contents,
                   pending_changes, debounce_timers, recent_deletes, timers,
                   emitted, disk, ever_read, delivered, script, obs, pc, failed>>

NextDiff == GenerateDiff

SpecDiff == InitDiff /\ [][NextDiff]_vars

(***************************************************************************)
(* Properties.                                                             *)
(***************************************************************************)
\* The keys and contents of recent_deletes (the age is the passing of time,
\* not a mutation of the table).
RecentEntries ==
    [i \in 1..Len(recent_deletes) |->
        <<recent_deletes[i].path, recent_deletes[i].content>>]

\* C1: once stop() has returned, no step emits an Observation and no step
\* changes ContentCache, the PendingChange set, the task handles or the
\* RecentDelete table.
C1_StopIsBarrier ==
    [][observer = "stopped" =>
          /\ emitted' = <<>>
          /\ file_contents' = file_contents
          /\ pending_changes' = pending_changes
          /\ debounce_timers' = debounce_timers
          /\ RecentEntries' = RecentEntries]_vars

\* The burst is over: events were delivered and no task is left.
BurstDone == script.name = "burst" /\ delivered >= 1 /\ Quiet

\* The text a read finds after the last write of the burst.
BurstFinal == _read_file_content(disk[script.path])

\* C2 (as stated): a burst of Created/Modified events for a tracked path,
\* every write of which put a new text into the file, followed by silence,
\* yields exactly one Observation, from the content cached before the first
\* write to the content after the last write.
C2_BurstYieldsOne ==
    (BurstDone /\ script.clean) =>
        /\ Len(obs) = 1
        /\ obs[1].path = script.path
        /\ obs[1].old_content = script.old
        /\ obs[1].new_content = BurstFinal

\* C2 (amended): nothing is emitted while the burst lasts; after it, there
\* is exactly one Observation (cached content before the first write ->
\* content after the last write) if these two differ, and none if they are
\* the same.
C2_BurstCoalesced ==
    script.name = "burst" =>
        /\ ~Quiet => obs = <<>>
        /\ BurstDone =>
              obs = IF BurstFinal # script.old
                    THEN <<Observation(script.path, TRUE, script.old, BurstFinal)>>
                    ELSE <<>>

C2_Witness ==
    /\ BurstDone
    /\ delivered >= 2
    /\ script.clean
    /\ obs = <<Observation(script.path, TRUE, script.old, BurstFinal)>>

\* The Created event of the replacement found the entry of a inside the
\* rename window and the created file holds what a held.
Renamed ==
    /\ script.name = "replace"
    /\ use_debouncing
    /\ script.phase >= 2
    /\ script.inwindow
    /\ script.x = script.c

\* C3: in debounced mode, Deleted(a) with cached content c followed inside
\* the rename window by Created(b) with file content c yields no Observation
\* and leaves file_contents[b] = c; the Modified(b) that follows is diffed
\* against c: one Observation c -> d when the new text d differs, and that
\* is all.
C3_RenameIsSilent ==
    Renamed =>
        /\ script.phase = 2 =>
              /\ obs = <<>>
              /\ script.b \in DOMAIN file_contents
              /\ file_contents[script.b] = script.c
        /\ script.phase = 3 =>
              /\ obs \in {<<>>, <<Observation(script.b, TRUE, script.c, script.d)>>}
              /\ Quiet => (obs = <<>>) = (script.d = script.c)

C3_Witness ==
    /\ Renamed
    /\ script.phase = 3
    /\ script.a # script.b
    /\ script.c # Empty
    /\ Quiet
    /\ obs = <<Observation(script.b, TRUE, script.c, script.d)>>

\* Deleted(a) and Created(b) with another content have been handled, b is
\* a itself or a path the cache did not hold, and every task has run.
Replaced ==
    /\ script.name = "replace"
    /\ script.phase = 2
    /\ script.x # script.c
    /\ (script.b = script.a \/ ~script.tracked)
    /\ Quiet

\* The two contents of an observation of path p.
Change(p, old, new) == [path |-> p, old_content |-> old, new_content |-> new]

ChangeOf(o) == Change(o.path, o.old_content, o.new_content)

\* C4 (as stated): Deleted(a) with content c followed by Created(b) with
\* content x # c yields exactly two Observations, a deletion of a (c -> '')
\* and a creation of b ('' -> x), for every c and x, the empty ones included.
C4_TwoObservations ==
    Replaced =>
        /\ Len(obs) = 2
        /\ {ChangeOf(obs[1]), ChangeOf(obs[2])} =
              {Change(script.a, script.c, Empty), Change(script.b, Empty, script.x)}

\* C4 (amended): the deletion of a (c -> '') is always emitted.  In
\* immediate mode the creation of b ('' -> x, prev_exist false) follows it.
\* In debounced mode the creation of b is emitted, before or after the
\* deletion and with prev_exist true, exactly when x is not empty.
C4_DeletionAndCreation ==
    Replaced =>
        LET deletion == Observation(script.a, TRUE, script.c, Empty)
            creation == Observation(script.b, use_debouncing, Empty, script.x)
        IN  IF ~use_debouncing
            THEN obs = <<deletion, creation>>
            ELSE IF script.x = Empty
            THEN obs = <<deletion>>
            ELSE obs \in {<<deletion, creation>>, <<creation, deletion>>}

C4_Witness ==
    /\ Replaced
    /\ use_debouncing
    /\ script.inwindow
    /\ script.c # Empty
    /\ Len(obs) = 2
    /\ obs[2].path = script.a

\* C5: no Observation is emitted whose old content equals its new content.
C5_NoUnchangedObservation ==
    \A i \in 1..Len(emitted) : emitted[i].old_content # emitted[i].new_content

\* How often line l occurs in the sequence s of lines.
Count(s, l) == Cardinality({i \in 1..Len(s) : s[i] = l})

\* The lines of the diff with marker m.
Marked(ops, m) ==
    LET RECURSIVE Sel(_)
        Sel(o) == IF o = <<>> THEN <<>>
                  ELSE (IF Head(o)[1] = m THEN <<Head(o)[2]>> ELSE <<>>)
                       \o Sel(Tail(o))
    IN  Sel(ops)

\* C6 (as stated): for a fixed old content, two different new contents
\* never have the same diff body (the body determines the new content).
C6_BodyDeterminesNew ==
    (diff.done /\ diff.new # diff.other) => diff.body # diff.other_body

\* C6 (amended): the body is empty exactly when old and new are equal, and
\* it tells which lines go and which come, not where: taking the '-' lines
\* out of old's lines and adding the '+' lines gives new's lines, each as
\* often as new has it.
C6_BodyIsLineDelta ==
    diff.done =>
        /\ (diff.body = "") = (diff.old = diff.new)
        /\ diff.body = Join(diff.ops)
        /\ \A l \in Lines \cup {"a"} :
              /\ Count(Marked(diff.ops, "-"), l) <= Count(diff.old, l)
              /\ Count(diff.new, l) =
                    Count(diff.old, l) - Count(Marked(diff.ops, "-"), l)
                    + Count(Marked(diff.ops, "+"), l)

C6_Witness ==
    /\ diff.done
    /\ diff.old # diff.new
    /\ Marked(diff.ops, "-") # <<>>
    /\ Marked(diff.ops, "+") # <<>>
    /\ Len(diff.ops) < Len(diff.old) + Len(diff.new)

\* The debounce tasks of p that are started, not fired and not cancelled.
Outstanding(p) ==
    {i \in DOMAIN timers :
        /\ timers[i].kind = "debounce"
        /\ timers[i].path = p
        /\ timers[i].st = "waiting"}

\* C7: at every instant a path has at most one outstanding debounce task.
C7_OneTaskPerPath == \A p \in Paths : Cardinality(Outstanding(p)) <= 1

\* C8: every path of ContentCache has been read as text, successfully, at
\* least once.
C8_CachedWasRead == DOMAIN file_contents \subseteq ever_read

\* C9: a path that _should_ignore accepts or _should_watch rejects has no
\* ContentCache entry, no RecentDelete entry and no Observation; a path
\* with a .git segment is such a path whatever the include patterns are.
C9_FilteredUntouched ==
    /\ \A p \in Paths :
          Filtered(p) =>
              /\ p \notin DOMAIN file_contents
              /\ p \notin RecentPaths
              /\ \A i \in 1..Len(emitted) : emitted[i].path # p
    /\ Filtered("g")

\* Events have been handled, one of them with an Observation, under include
\* patterns that reject b.txt.
C9_Witness ==
    /\ delivered = MaxEvents
    /\ patterns = IncludeA
    /\ Filtered("b") /\ Filtered("l")
    /\ emitted # <<>>
    /\ "a" \notin DOMAIN file_contents

\* C10: a Moved(src, dest) event of a file, with no transient path and src
\* passing the filters, emits the deletion of src (cached content -> '')
\* first and removes src from the cache; if dest passes the filters the
\* creation of dest ('' -> src's content, prev_exist false) is emitted next
\* and file_contents[dest] is that content; if not, nothing else is emitted
\* and dest gets no entry.
C10_MoveStep ==
    [][\A src \in Paths : \A dest \in Paths \ {src} :
          (/\ ~IsTransient(src) /\ ~IsTransient(dest) /\ ~Filtered(src)
           /\ on_moved(src, dest, FALSE))
          => LET content == Get(file_contents, src)
             IN  /\ emitted' # <<>>
                 /\ emitted'[1] = Observation(src, TRUE, content, Empty)
                 /\ src \notin DOMAIN file_contents'
                 /\ IF ~Filtered(dest)
                    THEN /\ emitted' = <<emitted'[1],
                                         Observation(dest, FALSE, Empty, content)>>
                         /\ dest \in DOMAIN file_contents'
                         /\ file_contents'[dest] = content
                    ELSE /\ Len(emitted') = 1
                         /\ dest \notin DOMAIN file_contents'
         ]_vars

\* A move of a tracked file to a path that passes the filters has been
\* handled.
C10_Witness ==
    /\ Len(emitted) = 2
    /\ emitted[1].new_content = Empty
    /\ emitted[1].old_content # Empty
    /\ emitted[2].path \in DOMAIN file_contents
    /\ emitted[1].path \notin DOMAIN file_contents

\* A step that emits nothing and leaves ContentCache, the PendingChange set,
\* the task handles and RecentDelete as they are.
Untouched ==
    /\ emitted' = <<>>
    /\ UNCHANGED tables

\* C11: an event with a transient path (for Moved: a transient source or
\* destination) is discarded before anything else is done: its step emits
\* nothing and leaves ContentCache, the PendingChange set, the task handles
\* and RecentDelete unchanged.
C11_TransientDiscarded ==
    [][\A p \in Paths :
          /\ (/\ IsTransient(p)
              /\ \/ on_created(p, FALSE)
                 \/ on_modified(p, FALSE)
                 \/ on_deleted(p, FALSE))
             => Untouched
          /\ \A q \in Paths \ {p} :
                ((IsTransient(p) \/ IsTransient(q)) /\ on_moved(p, q, FALSE))
                => Untouched
      ]_vars

\* C15: no path is in ContentCache and in RecentDelete at the same time.
C15_TrackedOrPendingDelete == DOMAIN file_contents \cap RecentPaths = {}

\* C16: the finalization check of a Deleted event finalizes only the entry
\* that event created: a check that finds an entry of its path emits and
\* removes it only once that entry's own rename window is over.
C16_OwnEntryOnly ==
    [][\A id \in TimerIds :
          (/\ _handle_delayed_delete(id)
           /\ timers[id].path \in RecentPaths)
          => recent_deletes[RecentIndex(timers[id].path)].age >= rename_window
      ]_vars

\* C17: every debounce timer that is started, has not fired and is not
\* cancelled is the handle debounce_timers holds for its path.
C17_WaitingTimerIsStored ==
    \A id \in DOMAIN timers :
        (timers[id].kind = "debounce" /\ timers[id].st = "waiting")
        => /\ timers[id].path \in DOMAIN debounce_timers
           /\ debounce_timers[timers[id].path] = id

\* C19: a Deleted event for a path that has a RecentDelete entry and has not
\* been tracked since leaves the content stored in the entry as it is.
C19_DuplicateDeleteKeepsContent ==
    [][\A p \in Paths :
          (/\ p \in RecentPaths
           /\ p \notin DOMAIN file_contents
           /\ on_deleted(p, FALSE))
          => /\ p \in RecentPaths'
             /\ recent_deletes'[RecentIndex(p)'].content =
                   recent_deletes[RecentIndex(p)].content
      ]_vars

(***************************************************************************)
(* The threads statement by statement.  Nothing in the watcher is locked:  *)
(* between the test of a key and the statement that acts on the key a      *)
(* thread can be overtaken by another one.  Here the handlers with such a  *)
(* test are cut at it: on_deleted and on_moved after "path in              *)
(* debounce_timers" and again after cancel(), on_created once the scan of  *)
(* its snapshot of recent_deletes has found a match, the two timer         *)
(* callbacks after their first test.  What lies between two cuts runs as   *)
(* one step.  A KeyError ends the handler; in the delivery thread it ends  *)
(* the thread, which the observer does not restart.  Events are those of   *)
(* handled paths in debounced mode.                                        *)
(*                                                                         *)
(* script counts the recent_deletes entries made (a store under a new     *)
(* key), consumed (taken as a rename by on_created) and finalized (a       *)
(* deletion emitted by _handle_delayed_delete), and notes a stale firing.  *)
(***************************************************************************)
InitThreads ==
    /\ Constructed(InitContents)
    /\ use_debouncing
    /\ disk = EmptyMap
    /\ script = [name |-> "threads", made |-> 0, consumed |-> 0,
                 finalized |-> 0, stale |-> FALSE]

\* A statement raises KeyError.
Raise(statement) == failed' = failed \cup {statement}

\* The delivery thread takes the next raw event off the queue.
ThreadDeliver ==
    /\ observer = "running"
    /\ pc = Idle
    /\ delivered < MaxEvents
    /\ delivered' = delivered + 1
    /\ UNCHANGED <<disk, diff>>

\* on_deleted has stored the entry of p: a new entry unless the key was there.
Made(p) == script' = [script EXCEPT !.made = IF p \in RecentPaths THEN @ ELSE @ + 1]

\* on_created up to the match: either no entry of the snapshot matches and
\* the handler runs to its end, or one does and the thread stands before
\* "self.file_contents[src_path] = new_content".
on_created_scan(p) ==
    \/ /\ on_created(p, FALSE)
       /\ recent_deletes' = recent_deletes
       /\ UNCHANGED <<pc, failed, script>>
    \/ /\ observer = "running"
       /\ \E r \in ReadOf(p) :
             /\ RenameMatch(_read_file_content(r)) # 0
             /\ pc' = [at |-> "rename", path |-> p, read |-> r,
                       old_path |->
                           recent_deletes[RenameMatch(_read_file_content(r))].path]
             /\ NoteRead(p, r)
       /\ Emit(<<>>)
       /\ UNCHANGED <<config, observer, tables, timers, failed, script>>

\* on_created from the match on: the cache entry, then
\* recent_deletes.pop(old_path), which raises if the entry is gone.
on_created_rename ==
    /\ pc.at = "rename"
    /\ pc' = Idle
    /\ file_contents' = Put(file_contents, pc.path, _read_file_content(pc.read))
    /\ script' = [script EXCEPT !.consumed = @ + 1]
    /\ Emit(<<>>)
    /\ IF pc.old_path \in RecentPaths
       THEN /\ recent_deletes' = RemoveAt(recent_deletes, RecentIndex(pc.old_path))
            /\ UNCHANGED <<failed, observer>>
       ELSE /\ UNCHANGED recent_deletes
            /\ Raise("recent_deletes.pop(old_path) in on_created")
            /\ observer' = "crashed"
    /\ UNCHANGED <<config, pending_changes, debounce_timers, timers, ever_read,
                   disk, delivered, diff>>

\* on_deleted and on_moved up to "if src_path in self.debounce_timers": with
\* no handle the handler runs to its end, with one the thread stands before
\* "self.debounce_timers[src_path].cancel()".
cancel_test(op, src, dest) ==
    IF src \notin DOMAIN debounce_timers
    THEN /\ IF op = "deleted"
            THEN on_deleted(src, FALSE) /\ Made(src)
            ELSE on_moved(src, dest, FALSE) /\ UNCHANGED script
         /\ UNCHANGED <<pc, failed>>
    ELSE /\ pc' = [at |-> "cancel", op |-> op, path |-> src, dest |-> dest]
         /\ Emit(<<>>)
         /\ UNCHANGED <<config, observer, tables, timers, ever_read, failed,
                        script>>

\* self.debounce_timers[src_path].cancel(): the lookup raises if the handle
\* is gone.
cancel_timer ==
    /\ pc.at = "cancel"
    /\ Emit(<<>>)
    /\ IF pc.path \in DOMAIN debounce_timers
       THEN /\ timers' = CancelOf(pc.path)
            /\ pc' = [pc EXCEPT !.at = "pop"]
            /\ UNCHANGED <<failed, observer>>
       ELSE /\ UNCHANGED timers
            /\ pc' = Idle
            /\ Raise("debounce_timers[src_path] in on_" \o pc.op)
            /\ observer' = "crashed"
    /\ UNCHANGED <<config, tables, ever_read, disk, delivered, script, diff>>

\* self.debounce_timers.pop(src_path), which raises if the handle is gone,
\* and the rest of the handler.
cancel_pop ==
    /\ pc.at = "pop"
    /\ pc' = Idle
    /\ UNCHANGED <<disk, delivered, diff>>
    /\ IF pc.path \in DOMAIN debounce_timers
       THEN /\ IF pc.op = "deleted"
               THEN on_deleted(pc.path, FALSE) /\ Made(pc.path)
               ELSE on_moved(pc.path, pc.dest, FALSE) /\ UNCHANGED script
            /\ UNCHANGED failed
       ELSE /\ Raise("debounce_timers.pop(src_path) in on_" \o pc.op)
            /\ observer' = "crashed"
            /\ Emit(<<>>)
            /\ UNCHANGED <<config, tables, timers, ever_read, script>>

\* A callback that goes on whether the path is pending or not.
_handle_debounced_change_untested(id) ==
    /\ id \in DOMAIN timers
    /\ timers[id].kind = "debounce"
    /\ timers[id].st = "fired"
    /\ Emit(<<>>)
    /\ timers' = [timers EXCEPT ![id].st = "checked"]
    /\ UNCHANGED <<config, observer, tables, ever_read, disk, delivered, diff,
                   pc, failed, script>>

\* _handle_debounced_change up to "if path not in self.pending_changes:
\* return".
_handle_debounced_change_test(id) ==
    /\ id \in DOMAIN timers
    /\ timers[id].kind = "debounce"
    /\ timers[id].st = "fired"
    /\ Emit(<<>>)
    /\ IF timers[id].path \in pending_changes
       THEN /\ timers' = [timers EXCEPT ![id].st = "checked"]
            /\ UNCHANGED script
       ELSE /\ timers' = Finish(id)
            /\ script' = [script EXCEPT !.stale = TRUE]
    /\ UNCHANGED <<config, observer, tables, ever_read, disk, delivered, diff,
                   pc, failed>>

\* _handle_debounced_change from self.pending_changes.remove(path) on; the
\* remove raises if the path is no longer pending.
_handle_debounced_change_rest(id) ==
    /\ id \in DOMAIN timers
    /\ timers[id].kind = "debounce"
    /\ timers[id].st = "checked"
    /\ UNCHANGED <<disk, delivered, script, diff, pc>>
    /\ IF timers[id].path \in pending_changes
       THEN /\ _handle_debounced_change(id)
            /\ UNCHANGED failed
       ELSE /\ timers' = Finish(id)
            /\ Raise("pending_changes.remove(path) in _handle_debounced_change")
            /\ Emit(<<>>)
            /\ UNCHANGED <<config, observer, tables, ever_read>>

\* _handle_delayed_delete up to "if path in self.recent_deletes".
_handle_delayed_delete_test(id) ==
    /\ id \in DOMAIN timers
    /\ timers[id].kind = "delete"
    /\ timers[id].st = "fired"
    /\ Emit(<<>>)
    /\ timers' = IF timers[id].path \in RecentPaths
                 THEN [timers EXCEPT ![id].st = "checked"]
                 ELSE Finish(id)
    /\ UNCHANGED <<config, observer, tables, ever_read, disk, delivered, script,
                   diff, pc, failed>>

\* _handle_delayed_delete from the test on: the deletion is emitted, then
\* self.recent_deletes.pop(path) raises if the entry is gone.
_handle_delayed_delete_rest(id) ==
    /\ id \in DOMAIN timers
    /\ timers[id].kind = "delete"
    /\ timers[id].st = "checked"
    /\ timers' = Finish(id)
    /\ Emit(<<Observation(timers[id].path, TRUE, timers[id].old_content, Empty)>>)
    /\ script' = [script EXCEPT !.finalized = @ + 1]
    /\ IF timers[id].path \in RecentPaths
       THEN /\ recent_deletes' =
                   RemoveAt(recent_deletes, RecentIndex(timers[id].path))
            /\ UNCHANGED failed
       ELSE /\ UNCHANGED recent_deletes
            /\ Raise("recent_deletes.pop(path) in _handle_delayed_delete")
    /\ UNCHANGED <<config, observer, file_contents, pending_changes,
                   debounce_timers, ever_read, disk, delivered, diff, pc>>

ThreadCreated == ThreadDeliver /\ \E p \in Handled : on_created_scan(p)
ThreadRename == pc # Idle /\ on_created_rename
ThreadModified ==
    /\ ThreadDeliver
    /\ \E p \in Handled : on_modified(p, FALSE)
    /\ UNCHANGED <<pc, failed, script>>
ThreadDeleted == ThreadDeliver /\ \E p \in Handled : cancel_test("deleted", p, p)
ThreadMoved ==
    ThreadDeliver /\ \E p \in Handled : \E q \in Handled \ {p} : cancel_test("moved", p, q)
ThreadCancel == pc # Idle /\ cancel_timer
ThreadPop == pc # Idle /\ cancel_pop
DebouncedTest == ~Quiet /\ \E id \in TimerIds : _handle_debounced_change_test(id)
DebouncedRest == ~Quiet /\ \E id \in TimerIds : _handle_debounced_change_rest(id)
DelayedTest == ~Quiet /\ \E id \in TimerIds : _handle_delayed_delete_test(id)
DelayedRest == ~Quiet /\ \E id \in TimerIds : _handle_delayed_delete_rest(id)

NextThreads ==
    \/ Start
    \/ ThreadCreated
    \/ ThreadRename
    \/ ThreadModified
    \/ ThreadDeleted
    \/ ThreadMoved
    \/ ThreadCancel
    \/ ThreadPop
    \/ Expire
    \/ DebouncedTest
    \/ DebouncedRest
    \/ DelayedTest
    \/ DelayedRest
    \/ Elapse

SpecThreads == InitThreads /\ [][NextThreads]_vars

\* Every thread is at rest and no entry waits.
AtRest == Quiet /\ pc = Idle /\ recent_deletes = <<>>

\* C12: every RecentDelete entry ends in exactly one way, consumed by a
\* matching create (no deletion emitted) or finalized with one deletion
\* Observation: never more endings than entries, and when all is at rest
\* as many endings as entries.
C12_OneEndingPerEntry ==
    script.name = "threads" =>
        /\ script.consumed + script.finalized <= script.made
        /\ AtRest => script.consumed + script.finalized = script.made

\* C13: no statement acts on a key that another thread removed after the
\* test: no handler raises KeyError.
C13_NoHandlerFails == failed = {}

\* C14: a debounce task that fires for a path that is not pending returns
\* at once: the step emits nothing, leaves ContentCache, the PendingChange
\* set, the task handles and RecentDelete unchanged, and the task is over.
C14_StaleFiringIsNoOp ==
    [][\A id \in TimerIds :
          (/\ _handle_debounced_change_test(id)
           /\ timers[id].path \notin pending_changes)
          => /\ Untouched
             /\ id \notin DOMAIN timers'
             /\ file_contents' = file_contents
      ]_vars

\* A stale firing has happened after the change of a cached path was
\* cancelled.
C14_Witness ==
    /\ script.name = "threads"
    /\ script.stale
    /\ failed = {}
    /\ delivered >= 2

(***************************************************************************)
(* A tree in step with its events: every file operation on a handled path  *)
(* is followed at once by the raw event that reports it, and the cache     *)
(* starts as the initial walk of that tree leaves it.  A file that does    *)
(* not exist cannot be read.                                               *)
(***************************************************************************)
InitSync ==
    /\ Constructed(Contents)
    /\ script = [name |-> "sync"]
    /\ disk = [p \in Handled |-> IF p \in DOMAIN file_contents
                                 THEN file_contents[p] ELSE ReadFail]

Exists(p) == disk[p] # ReadFail

SyncStep ==
    /\ script.name = "sync"
    /\ delivered < MaxEvents
    /\ delivered' = delivered + 1
    /\ UNCHANGED <<script, diff, pc, failed>>

\* A file is written: created if it was not there, modified if it was.
SyncWrite ==
    /\ SyncStep
    /\ \E p \in Handled, c \in Contents :
          /\ Write(p, c)
          /\ IF Exists(p) THEN on_modified(p, FALSE) ELSE on_created(p, FALSE)

SyncDelete ==
    /\ SyncStep
    /\ \E p \in Handled :
          /\ Exists(p)
          /\ Write(p, ReadFail)
          /\ on_deleted(p, FALSE)

SyncMove ==
    /\ SyncStep
    /\ \E p \in Handled : \E q \in Handled \ {p} :
          /\ Exists(p)
          /\ disk' = [disk EXCEPT ![q] = disk[p], ![p] = ReadFail]
          /\ on_moved(p, q, FALSE)

NextSync ==
    \/ Start
    \/ SyncWrite
    \/ SyncDelete
    \/ SyncMove
    \/ Expire
    \/ DebouncedChange
    \/ DelayedDelete
    \/ Elapse

SpecSync == InitSync /\ [][NextSync]_vars

\* C18: once every event is delivered and every debounce and finalization
\* timer has fired, the cache holds the content of every handled file that
\* exists and no entry for a handled path without a file.
C18_QuiescentCacheIsDisk ==
    (script.name = "sync" /\ Quiet) =>
        \A p \in Handled :
            IF Exists(p)
            THEN Get(file_contents, p) = disk[p]
            ELSE p \notin DOMAIN file_contents

(***************************************************************************)
(* The two modes side by side: one Created event for a file the cache does *)
(* not hold, or one Modified event for a file it holds, is handled by a    *)
(* watcher in immediate mode; then a second watcher, constructed over the  *)
(* same tree in debounced mode, handles the same event on the same file.   *)
(***************************************************************************)
InitModes ==
    /\ Constructed(Contents)
    /\ ~use_debouncing
    /\ \E p \in Handled, r \in ReadResults :
          /\ script = [name |-> "modes", phase |-> 0, path |-> p,
                       kind |-> IF p \in DOMAIN file_contents
                                THEN "modified" ELSE "created",
                       cache |-> file_contents,
                       inline_obs |-> <<>>, inline_cache |-> EmptyMap]
          /\ disk = Put(EmptyMap, p, r)

ModesEvent ==
    /\ script.name = "modes"
    /\ script.phase \in {0, 2}
    /\ script' = [script EXCEPT !.phase = @ + 1]
    /\ delivered' = delivered + 1
    /\ UNCHANGED <<disk, diff, pc, failed>>
    /\ IF script.kind = "created"
       THEN on_created(script.path, FALSE)
       ELSE on_modified(script.path, FALSE)

\* What the first watcher emitted and cached is kept, and the second
\* watcher is constructed and started.
ModesSwitch ==
    /\ script.name = "modes"
    /\ script.phase = 1
    /\ script' = [script EXCEPT !.phase = 2, !.inline_obs = obs,
                                !.inline_cache = file_contents]
    /\ use_debouncing' = TRUE
    /\ file_contents' = script.cache
    /\ ever_read' = DOMAIN script.cache
    /\ obs' = <<>>
    /\ emitted' = <<>>
    /\ UNCHANGED <<patterns, observer, pending_changes, debounce_timers,
                   recent_deletes, timers, disk, delivered, diff, pc, failed>>

NextModes ==
    \/ Start
    \/ ModesEvent
    \/ ModesSwitch
    \/ Expire
    \/ DebouncedChange
    \/ Elapse

SpecModes == InitModes /\ [][NextModes]_vars

\* C20: for a single Created or Modified event the immediate mode emits
\* the same Observation (path, prev_exist, old content, new content, diff
\* body), or as little, and leaves the same cache as the debounced mode
\* does once its debounce task has fired.
C20_ModesAgree ==
    (script.name = "modes" /\ script.phase = 3 /\ Quiet) =>
        /\ obs = script.inline_obs
        /\ file_contents = script.inline_cache

=============================================================================
